---- MODULE Spec2Model ----
(***************************************************************************)
(* ClaimAssist AI: the claim workflow of src/app/page.tsx, the assessment  *)
(* screen of src/components/DamageAssessment.tsx, the analysis endpoint of *)
(* src/app/api/analyze/route.ts, the agent review screen (AgentReview) and *)
(* the feedback log (feedbackLoop).                                        *)
(*                                                                         *)
(* Money is in whole dollars, confidence in percent.  JavaScript           *)
(* `undefined` is encoded per type: Undefined (-1) for numbers, the empty  *)
(* sequence for an absent JSON field (a present field v is <<v>>), and     *)
(* Null for an absent object.  Math.random() is a choice from sample sets. *)
(***************************************************************************)
EXTENDS Integers, Sequences, FiniteSets, TLC

\* ------------------------------------------------------------------ bounds
MaxImages == 1
MaxMarkers == 1
MaxModeToggles == 1

\* ------------------------------------------------- constants of the source
LOW_CONFIDENCE_THRESHOLD == 70
SENIOR_APPROVAL_THRESHOLD == 5000
HIGH_CONFIDENCE_THRESHOLD == 85
LABOR_RATE == 115
ROUTE_LABOR_RATE == 85
REVIEW_SENIOR_APPROVAL_THRESHOLD == 5000
MARKER_BOOST == 15
MARKER_BOOST_CAP == 95
NO_DAMAGE_CONFIDENCE_MOCK == 85
NO_DAMAGE_CONFIDENCE_ROUTE == 95
MOCK_CONFIDENCE_BASE == 75

Undefined == -1
Null == [null |-> TRUE]

Min(a, b) == IF a < b THEN a ELSE b
Max(a, b) == IF a > b THEN a ELSE b

Severities == {"Minor", "Moderate", "Severe"}

\* ------------------------------------------------------- sequence helpers
RECURSIVE SumCost(_)
SumCost(ds) == IF ds = <<>> THEN 0 ELSE Head(ds).estimatedCost + SumCost(Tail(ds))

RECURSIVE SumConfidence(_)
SumConfidence(ds) == IF ds = <<>> THEN 0 ELSE Head(ds).confidence + SumConfidence(Tail(ds))

SomeSeverity(ds, s) == \E i \in 1..Len(ds) : ds[i].severity = s

\* Math.floor(a / b) and Math.round(a / b) for a >= 0, b > 0
FloorDiv(a, b) == a \div b
RoundDiv(a, b) == (2 * a + b) \div (2 * b)

\* --------------------------------------------- generateMockAssessment
\* The entries of damageTypes whose labor hours are whole numbers (the other
\* five have half hours and so half-dollar costs).
damageTypes ==
  << [area |-> "Hood", severity |-> "Minor", partsCost |-> 0, laborHours |-> 2],
     [area |-> "Front Quarter Panel", severity |-> "Severe", partsCost |-> 3200, laborHours |-> 8],
     [area |-> "Door Panel", severity |-> "Moderate", partsCost |-> 950, laborHours |-> 4] >>

\* Outcomes of the Math.random() calls of one generateMockAssessment call:
\*   order      damageTypes.sort(() => Math.random() - 0.5), an order of the catalog
\*   jitter     Math.floor(Math.random() * 100) added to each catalog cost
\*   confidence Math.floor(Math.random() * 20) added to each base confidence
\*   draw       which of the sampled (partsCost, laborHours) redraws each item gets
RandomSamples ==
  { [order |-> <<1, 2, 3>>, jitter |-> <<7, 7, 7>>, confidence |-> <<19, 19, 19>>, draw |-> <<1, 2, 1>>],
    [order |-> <<1, 3, 2>>, jitter |-> <<7, 42, 7>>, confidence |-> <<0, 19, 0>>, draw |-> <<2, 1, 2>>] }

\* (partsCost, laborHours) redrawn for a severity override: the low and the
\* high end of each range, with whole hours.
SeverityCostSamples(sev) ==
  CASE sev = "Severe"   -> << [partsCost |-> 2000, laborHours |-> 5], [partsCost |-> 3499, laborHours |-> 8] >>
    [] sev = "Minor"    -> << [partsCost |-> 0, laborHours |-> 1], [partsCost |-> 99, laborHours |-> 2] >>
    [] sev = "Moderate" -> << [partsCost |-> 300, laborHours |-> 2], [partsCost |-> 799, laborHours |-> 4] >>

\* The arguments of generateMockAssessment after imageCount: all four are
\* passed in simulated mode, none in the fallback.
NoOverrides == [given |-> FALSE, confidence |-> Undefined, severity |-> "Moderate",
                hasDamage |-> TRUE, hasInconsistency |-> FALSE]

MockInconsistencies ==
  << [type |-> "color_mismatch", severity |-> "critical", confidence |-> 94],
     [type |-> "multiple_vehicles", severity |-> "critical", confidence |-> 89] >>

\* First map over the shuffled catalog (lines 185-202).
CatalogItems(rnd, n, ov) ==
  [ i \in 1..n |->
      LET d == damageTypes[rnd.order[i]]
      IN [ area |-> d.area,
           severity |-> IF ov.given THEN ov.severity ELSE d.severity,
           estimatedCost |-> d.partsCost + d.laborHours * LABOR_RATE + rnd.jitter[i],
           confidence |-> IF ov.confidence # Undefined THEN ov.confidence
                          ELSE MOCK_CONFIDENCE_BASE + rnd.confidence[i] ] ]

\* Second map when a severity override is given (lines 208-252); Minor keeps
\* at most two items.
SeverityItems(items, sev, rnd) ==
  LET kept == IF sev = "Minor" THEN SubSeq(items, 1, Min(2, Len(items))) ELSE items
  IN [ i \in 1..Len(kept) |->
         LET redraw == SeverityCostSamples(sev)[rnd.draw[i]]
         IN [ area |-> kept[i].area,
              severity |-> sev,
              estimatedCost |-> redraw.partsCost + redraw.laborHours * LABOR_RATE,
              confidence |-> kept[i].confidence ] ]

MockOverallSeverity(ds, ov) ==
  IF ov.given THEN ov.severity
  ELSE IF SomeSeverity(ds, "Severe") THEN "Severe"
  ELSE IF SomeSeverity(ds, "Moderate") THEN "Moderate"
  ELSE "Minor"

MockResult(ds, ov) ==
  [ hasDamage |-> TRUE,
    overallSeverity |-> MockOverallSeverity(ds, ov),
    damages |-> ds,
    totalEstimate |-> SumCost(ds),
    aiConfidence |-> IF ov.confidence # Undefined THEN ov.confidence
                     ELSE FloorDiv(SumConfidence(ds), Len(ds)),
    summary |-> IF ov.hasInconsistency THEN "simulated_alert" ELSE "simulated",
    humanAssisted |-> FALSE,
    hasInconsistencies |-> ov.hasInconsistency,
    inconsistencies |-> IF ov.hasInconsistency THEN MockInconsistencies ELSE <<>>,
    manualOverrides |-> <<>> ]

MockNoDamage(ov) ==
  [ hasDamage |-> FALSE,
    overallSeverity |-> "None",
    damages |-> <<>>,
    totalEstimate |-> 0,
    aiConfidence |-> IF ov.confidence # Undefined THEN ov.confidence
                     ELSE NO_DAMAGE_CONFIDENCE_MOCK,
    summary |-> "simulated_no_damage",
    humanAssisted |-> FALSE,
    hasInconsistencies |-> FALSE,
    inconsistencies |-> <<>>,
    manualOverrides |-> <<>> ]

\* The set of results one call can return (one per outcome of the random draws).
generateMockAssessment(imageCount, ov) ==
  IF ov.given /\ ~ov.hasDamage THEN { MockNoDamage(ov) }
  ELSE
    LET numDamages == Min(Max(2, imageCount), Len(damageTypes))
    IN { MockResult(IF ov.given
                      THEN SeverityItems(CatalogItems(rnd, numDamages, ov), ov.severity, rnd)
                      ELSE CatalogItems(rnd, numDamages, ov),
                    ov) : rnd \in RandomSamples }


\* ------------------------------------------------ the analysis endpoint
\* What the vision model can answer: a JSON object in which every field may
\* be absent (<<>>) or present (<<v>>).
LiveItem(a, s, c, k) == [area |-> a, severity |-> s, estimatedCost |-> c, confidence |-> k]

EligibleItems == << LiveItem("Front Bumper", "Moderate", 700, 90), LiveItem("Hood", "Minor", 300, 91) >>
LowConfidenceItems == << LiveItem("Front Bumper", "Moderate", 700, 62), LiveItem("Hood", "Minor", 300, 63) >>
SevereItems == << LiveItem("Left Fender", "Severe", 900, 90) >>
HighValueItems == << LiveItem("Front Quarter Panel", "Moderate", 5200, 90) >>
LiveFlag == [type |-> "model_mismatch", severity |-> "critical", confidence |-> 88]

Analysis(hd, ds, sev, lh, hi, inc) ==
  [ hasDamage |-> hd, damages |-> ds, overallSeverity |-> sev, laborHours |-> lh,
    hasInconsistencies |-> hi, inconsistencies |-> inc ]

AnalysisSamples ==
  { Analysis(<<FALSE>>, << <<>> >>, <<"None">>, <<0>>, <<FALSE>>, << <<>> >>),
    Analysis(<<TRUE>>, <<LowConfidenceItems>>, <<"Moderate">>, <<2>>, <<FALSE>>, << <<>> >>),
    Analysis(<<TRUE>>, <<EligibleItems>>, <<"Moderate">>, <<2>>, <<FALSE>>, << <<>> >>),
    Analysis(<<TRUE>>, <<SevereItems>>, <<"Severe">>, <<0>>, <<FALSE>>, << <<>> >>),
    Analysis(<<TRUE>>, <<EligibleItems>>, <<"Moderate">>, <<0>>, <<TRUE>>, << <<LiveFlag>> >>),
    Analysis(<<TRUE>>, <<EligibleItems>>, <<"Moderate">>, <<0>>, <<>>, << <<LiveFlag>> >>),
    Analysis(<<TRUE>>, <<HighValueItems>>, <<"Moderate">>, <<0>>, <<FALSE>>, << <<>> >>),
    Analysis(<<TRUE>>, <<>>, <<"Minor">>, <<1>>, <<FALSE>>, << <<>> >>),
    Analysis(<<TRUE>>, <<EligibleItems>>, <<>>, <<>>, <<>>, <<>>) }

\* How one request to the endpoint can go.
CallOutcomes ==
  { [kind |-> "network_error", analysis |-> Null],
    [kind |-> "no_api_key", analysis |-> Null],
    [kind |-> "unparseable", analysis |-> Null] }
  \cup { [kind |-> "json", analysis |-> a] : a \in AnalysisSamples }

ErrorResponse == [ok |-> FALSE, body |-> Null]

\* POST: the body it answers with.  The request's humanMarkers are not read.
\* `analysis.damages.reduce` throws when damages is absent; an absent
\* laborHours makes the total NaN, which JSON carries as null (<<>>).
POST(outcome) ==
  IF outcome.kind # "json" THEN ErrorResponse
  ELSE LET analysis == outcome.analysis IN
    IF analysis.damages = <<>> THEN ErrorResponse
    ELSE
      LET ds == analysis.damages[1]
          totalEstimate == IF analysis.laborHours = <<>> THEN <<>>
                           ELSE << SumCost(ds) + analysis.laborHours[1] * ROUTE_LABOR_RATE >>
          avgConfidence == IF Len(ds) > 0 THEN RoundDiv(SumConfidence(ds), Len(ds))
                           ELSE NO_DAMAGE_CONFIDENCE_ROUTE
      IN [ ok |-> TRUE,
           body |-> [ hasDamage |-> analysis.hasDamage,
                      damages |-> analysis.damages,
                      overallSeverity |-> analysis.overallSeverity,
                      laborHours |-> analysis.laborHours,
                      hasInconsistencies |-> analysis.hasInconsistencies,
                      inconsistencies |-> analysis.inconsistencies,
                      totalEstimate |-> totalEstimate,
                      aiConfidence |-> <<avgConfidence>> ] ]

\* `field || dflt` of JavaScript for an optional field
OrNumber(f, dflt) == IF f = <<>> \/ f = <<0>> THEN dflt ELSE f[1]
OrBoolean(f, dflt) == IF f = <<>> \/ f = <<FALSE>> THEN dflt ELSE f[1]
OrValue(f, dflt) == IF f = <<>> THEN dflt ELSE f[1]
Truthy(f) == f = <<TRUE>>

\* The AssessmentResult analyzeImages builds from a response body (lines 754-769).
LiveAssessment(result, humanMarkers) ==
  [ hasDamage |-> Truthy(result.hasDamage),
    overallSeverity |-> OrValue(result.overallSeverity, "None"),
    damages |-> OrValue(result.damages, <<>>),
    totalEstimate |-> OrNumber(result.totalEstimate, 0),
    aiConfidence |-> OrNumber(result.aiConfidence, 0),
    summary |-> "live",
    humanAssisted |-> (humanMarkers # Undefined /\ humanMarkers > 0),
    hasInconsistencies |-> OrBoolean(result.hasInconsistencies, FALSE),
    inconsistencies |-> OrValue(result.inconsistencies, <<>>),
    manualOverrides |-> <<>> ]

\* The boost of a simulated re-run with markers (lines 668-672).
HumanAssistedMock(mockResult, humanMarkers) ==
  IF humanMarkers # Undefined /\ humanMarkers > 0
  THEN [mockResult EXCEPT !.aiConfidence = Min(MARKER_BOOST_CAP, mockResult.aiConfidence + MARKER_BOOST),
                          !.humanAssisted = TRUE,
                          !.summary = "simulated_human_assisted"]
  ELSE mockResult

\* Variant: the threshold itself asks for markers.
NeedsHumanInputInclusive(result, humanMarkers) ==
  result.aiConfidence <= LOW_CONFIDENCE_THRESHOLD /\ humanMarkers = Undefined /\ result.hasDamage

\* Lines 675 and 774.
NeedsHumanInput(result, humanMarkers) ==
  result.aiConfidence < LOW_CONFIDENCE_THRESHOLD /\ humanMarkers = Undefined /\ result.hasDamage

\* Lines 683-687.
AutoApproveOnCompletion(mockResult, onQuickApprove) ==
  /\ mockResult.hasDamage
  /\ mockResult.aiConfidence >= HIGH_CONFIDENCE_THRESHOLD
  /\ mockResult.totalEstimate <= SENIOR_APPROVAL_THRESHOLD
  /\ ~mockResult.hasInconsistencies
  /\ onQuickApprove


\* ================================================================ state
VARIABLES
  \* Home (page.tsx)
  currentStep, claimData, images, homeAssessment, finalAssessment, aiMode, modeToggles,
  \* ImageUploader
  uploaderImages,
  \* DamageAssessment: props
  onQuickApprove,
  \* DamageAssessment: useState
  isAnalyzing, assessment, error, needsHumanInput, damageMarkers,
  overrideEnabled, adjustedCosts, overrideReasons, removedItems,
  isAutoApproving, quickApproveComplete,
  testConfidence, testSeverity, testHasDamage, testHasInconsistency,
  hasStartedAnalysis,
  \* DamageAssessment: pending asynchronous work
  analysisRun, autoApproveTimer, quickApproveTask,
  \* observations
  lastQuickApprove, apiCalls, humanRequests, agentClicked, lastRun,
  \* AgentReview
  adjustedDamages, showApprovalModal,
  \* feedbackLoop: the module's in-memory store, and how many entries were
  \* ever recorded (an observation)
  feedbackStore, entriesRecorded,
  \* DamageAssessment: rejection state, the pending wait of handleRejectClaim,
  \* and whether the rejection of the current claim was sent (an observation)
  showRejectModal, rejectionReason, isRejecting, rejectionSent, rejectTask, claimRejected

homeVars == <<currentStep, claimData, images, homeAssessment, finalAssessment, aiMode, modeToggles>>
testVars == <<testConfidence, testSeverity, testHasDamage, testHasInconsistency>>
editVars == <<overrideEnabled, adjustedCosts, overrideReasons, removedItems>>
daVars == <<isAnalyzing, assessment, error, needsHumanInput, damageMarkers, editVars,
            isAutoApproving, quickApproveComplete, testVars, hasStartedAnalysis>>
asyncVars == <<analysisRun, autoApproveTimer, quickApproveTask>>
obsVars == <<lastQuickApprove, apiCalls, humanRequests, agentClicked, lastRun>>
reviewVars == <<adjustedDamages, showApprovalModal>>
feedbackVars == <<feedbackStore, entriesRecorded>>
rejectVars == <<showRejectModal, rejectionReason, isRejecting, rejectionSent, rejectTask>>
workflowVars == <<homeVars, uploaderImages, onQuickApprove, daVars, asyncVars, obsVars, reviewVars,
                  rejectVars, claimRejected>>
vars == <<workflowVars, feedbackVars>>

\* Indices an assessment's damage list can have.
ItemIdx == 1..Len(damageTypes)

\* Values the agent types into a cost field of the assessment screen, the
\* reasons typed next to it, and the costs typed in review.
AdjustedCostSamples == {0}
ReasonSamples == {"", "Parts pricing outdated"}
ReviewCostSamples == {5000, 5001}
\* Positions of the test-mode confidence slider (30..99).
TestConfidenceSamples == {69, 70, 85}

\* ------------------------------------------------- DamageAssessment mount
\* The useState initial values (lines 604-638), set whenever the component
\* is mounted; the same values stand for the unmounted component.
DamageAssessmentMounted ==
  /\ isAnalyzing' = FALSE
  /\ assessment' = Null
  /\ error' = FALSE
  /\ needsHumanInput' = FALSE
  /\ damageMarkers' = 0
  /\ overrideEnabled' = [i \in ItemIdx |-> FALSE]
  /\ adjustedCosts' = [i \in ItemIdx |-> Undefined]
  /\ overrideReasons' = [i \in ItemIdx |-> ""]
  /\ removedItems' = [i \in ItemIdx |-> FALSE]
  /\ isAutoApproving' = FALSE
  /\ quickApproveComplete' = FALSE
  /\ testConfidence' = 85
  /\ testSeverity' = "Moderate"
  /\ testHasDamage' = TRUE
  /\ testHasInconsistency' = FALSE
  /\ hasStartedAnalysis' = FALSE
  /\ analysisRun' = Null
  /\ humanRequests' = 0
  /\ agentClicked' = FALSE
  /\ apiCalls' = 0
  /\ lastRun' = Null
  /\ showRejectModal' = FALSE
  /\ rejectionReason' = ""
  /\ isRejecting' = FALSE
  /\ rejectionSent' = FALSE
  /\ rejectTask' = FALSE

\* What is observed of a call onQuickApprove(a): the flags a carries, its
\* severity, and whether the agent had clicked Quick Approve.
QuickApproveCall(a, clicked) ==
  [ flags |-> Len(a.inconsistencies), severity |-> a.overallSeverity, clicked |-> clicked ]

\* The calls the pending timers will still make.
PendingCalls ==
  (IF autoApproveTimer # Null THEN << QuickApproveCall(autoApproveTimer.result, agentClicked) >> ELSE <<>>)
  \o (IF quickApproveTask # Null /\ onQuickApprove
        THEN << QuickApproveCall(quickApproveTask.result, TRUE) >> ELSE <<>>)

\* Unmounting does not clear the timers: their state updates are dropped but
\* onQuickApprove is still called.  Nothing else depends on when, so the call
\* (either of them, when two are pending) is observed at the unmount.
DamageAssessmentUnmounted ==
  /\ IF PendingCalls = <<>> THEN UNCHANGED lastQuickApprove
     ELSE \E i \in 1..Len(PendingCalls) : lastQuickApprove' = PendingCalls[i]
  /\ autoApproveTimer' = Null
  /\ quickApproveTask' = Null
  /\ claimRejected' = (claimRejected \/ rejectTask)
  /\ DamageAssessmentMounted

AgentReviewMounted(a) ==
  /\ adjustedDamages' = a.damages
  /\ showApprovalModal' = FALSE

AgentReviewUnmounted ==
  /\ adjustedDamages' = <<>>
  /\ showApprovalModal' = FALSE

Init ==
  /\ currentStep = "claim-form"
  /\ claimData = FALSE
  /\ images = 0
  /\ homeAssessment = Null
  /\ finalAssessment = Null
  /\ aiMode = "live"
  /\ modeToggles = 0
  /\ uploaderImages = 0
  /\ onQuickApprove \in BOOLEAN
  /\ isAnalyzing = FALSE
  /\ assessment = Null
  /\ error = FALSE
  /\ needsHumanInput = FALSE
  /\ damageMarkers = 0
  /\ overrideEnabled = [i \in ItemIdx |-> FALSE]
  /\ adjustedCosts = [i \in ItemIdx |-> Undefined]
  /\ overrideReasons = [i \in ItemIdx |-> ""]
  /\ removedItems = [i \in ItemIdx |-> FALSE]
  /\ isAutoApproving = FALSE
  /\ quickApproveComplete = FALSE
  /\ testConfidence = 85
  /\ testSeverity = "Moderate"
  /\ testHasDamage = TRUE
  /\ testHasInconsistency = FALSE
  /\ hasStartedAnalysis = FALSE
  /\ analysisRun = Null
  /\ autoApproveTimer = Null
  /\ quickApproveTask = Null
  /\ lastQuickApprove = Null
  /\ apiCalls = 0
  /\ humanRequests = 0
  /\ agentClicked = FALSE
  /\ lastRun = Null
  /\ adjustedDamages = <<>>
  /\ showApprovalModal = FALSE
  /\ feedbackStore = <<>>
  /\ entriesRecorded = 0
  /\ showRejectModal = FALSE
  /\ rejectionReason = ""
  /\ isRejecting = FALSE
  /\ rejectionSent = FALSE
  /\ rejectTask = FALSE
  /\ claimRejected = FALSE

\* ------------------------------------------------------------ Home
handleClaimSubmit ==
  /\ claimRejected' = FALSE
  /\ currentStep = "claim-form"
  /\ claimData' = TRUE
  /\ currentStep' = "upload"
  /\ uploaderImages' = 0
  /\ UNCHANGED <<images, homeAssessment, finalAssessment, aiMode, modeToggles, onQuickApprove, feedbackVars, rejectVars,
                 daVars, asyncVars, obsVars, reviewVars>>

ToggleAIMode ==
  /\ modeToggles < MaxModeToggles
  /\ modeToggles' = modeToggles + 1
  /\ aiMode' = IF aiMode = "live" THEN "simulated" ELSE "live"
  /\ UNCHANGED <<currentStep, claimData, images, homeAssessment, finalAssessment,
                 uploaderImages, onQuickApprove, feedbackVars, rejectVars, claimRejected, daVars, asyncVars, obsVars, reviewVars>>

\* ------------------------------------------------------------ ImageUploader
handleFiles ==
  /\ currentStep = "upload"
  /\ uploaderImages < MaxImages
  /\ uploaderImages' = uploaderImages + 1
  /\ UNCHANGED <<homeVars, onQuickApprove, feedbackVars, rejectVars, claimRejected, daVars, asyncVars, obsVars, reviewVars>>

removeImage ==
  /\ currentStep = "upload"
  /\ uploaderImages > 0
  /\ uploaderImages' = uploaderImages - 1
  /\ UNCHANGED <<homeVars, onQuickApprove, feedbackVars, rejectVars, claimRejected, daVars, asyncVars, obsVars, reviewVars>>

\* Variant: the uploader hands on an empty list.
handleSubmitWithoutImages ==
  /\ currentStep = "upload"
  /\ images' = uploaderImages
  /\ currentStep' = "assessment"
  /\ uploaderImages' = 0
  /\ DamageAssessmentMounted
  /\ lastQuickApprove' = Null
  /\ UNCHANGED <<claimData, homeAssessment, finalAssessment, aiMode, modeToggles, onQuickApprove, feedbackVars, claimRejected,
                 autoApproveTimer, quickApproveTask, reviewVars>>

\* handleSubmit of the uploader, then handleImagesUploaded of Home
handleSubmit ==
  /\ currentStep = "upload"
  /\ uploaderImages > 0
  /\ images' = uploaderImages
  /\ currentStep' = "assessment"
  /\ uploaderImages' = 0
  /\ DamageAssessmentMounted
  /\ lastQuickApprove' = Null
  /\ UNCHANGED <<claimData, homeAssessment, finalAssessment, aiMode, modeToggles, onQuickApprove, feedbackVars, claimRejected,
                 autoApproveTimer, quickApproveTask, reviewVars>>

UploaderBack ==
  /\ currentStep = "upload"
  /\ currentStep' = "claim-form"
  /\ uploaderImages' = 0
  /\ UNCHANGED <<claimData, images, homeAssessment, finalAssessment, aiMode, modeToggles, onQuickApprove, feedbackVars, rejectVars, claimRejected,
                 daVars, asyncVars, obsVars, reviewVars>>


\* ------------------------------------------------------------ DamageAssessment
\* Variant: the progress screen does not take the place of the other screens.
ViewBehindProgress ==
  IF currentStep # "assessment" \/ ~claimData THEN "unmounted"
  ELSE IF ~hasStartedAnalysis /\ ~isAnalyzing /\ assessment = Null THEN "initial"
  ELSE IF needsHumanInput /\ assessment # Null THEN "human_feedback"
  ELSE IF assessment = Null THEN "blank"
  ELSE IF ~assessment.hasDamage \/ Len(assessment.damages) = 0 THEN "no_damage"
  ELSE IF showRejectModal THEN "reject_modal"
  ELSE "damage"

\* Which of the component's screens is rendered (lines 951, 1006, 1033, 1045, 1048);
\* the rejection modal (line 1645) lies over the whole damage view.
View ==
  IF currentStep # "assessment" \/ ~claimData THEN "unmounted"
  ELSE IF ~hasStartedAnalysis /\ ~isAnalyzing /\ assessment = Null THEN "initial"
  ELSE IF isAnalyzing THEN "analyzing"
  ELSE IF needsHumanInput /\ assessment # Null THEN "human_feedback"
  ELSE IF assessment = Null THEN "blank"
  ELSE IF ~assessment.hasDamage \/ Len(assessment.damages) = 0 THEN "no_damage"
  ELSE IF showRejectModal THEN "reject_modal"
  ELSE "damage"

RECURSIVE AdjustedTotalFrom(_, _, _, _, _)
AdjustedTotalFrom(ds, removed, enabled, costs, i) ==
  IF i > Len(ds) THEN 0
  ELSE (IF removed[i] THEN 0
        ELSE IF enabled[i] /\ costs[i] # Undefined THEN costs[i]
        ELSE ds[i].estimatedCost)
       + AdjustedTotalFrom(ds, removed, enabled, costs, i + 1)

\* Variant: removed rows still count.
getAdjustedTotalWithRemoved ==
  IF assessment = Null THEN 0
  ELSE AdjustedTotalFrom(assessment.damages, [i \in ItemIdx |-> FALSE], overrideEnabled,
                         adjustedCosts, 1)

getAdjustedTotal ==
  IF assessment = Null THEN 0
  ELSE AdjustedTotalFrom(assessment.damages, removedItems, overrideEnabled, adjustedCosts, 1)

hasActiveOverrides == \E i \in ItemIdx : overrideEnabled[i]
hasRemovedItems == \E i \in ItemIdx : removedItems[i]
hasModifications == hasActiveOverrides \/ hasRemovedItems

\* Lines 1124-1126.
canAutoApprove ==
  /\ assessment.aiConfidence >= 85
  /\ getAdjustedTotal <= SENIOR_APPROVAL_THRESHOLD
  /\ ~assessment.hasInconsistencies

\* The Quick Approve button is rendered (line 1269) and not yet replaced by
\* the "Claim Approved" note.
QuickApproveOffered ==
  /\ View = "damage"
  /\ canAutoApprove
  /\ ~hasModifications
  /\ ~quickApproveComplete

RECURSIVE FilteredDamagesFrom(_, _, _)
FilteredDamagesFrom(ds, removed, i) ==
  IF i > Len(ds) THEN <<>>
  ELSE (IF removed[i] THEN <<>> ELSE <<ds[i]>>) \o FilteredDamagesFrom(ds, removed, i + 1)

\* Variant: the reason is recorded as typed.
OverrideReasonAsTyped(reason) == reason

\* `overrideReasons[index] || 'Manual adjustment'` (line 883).
OverrideReason(reason) == IF reason = "" THEN "Manual adjustment" ELSE reason

\* damageIndex is the item's position in assessment.damages (counted from 1 here).
RECURSIVE ManualOverridesFrom(_, _, _, _, _, _)
ManualOverridesFrom(ds, removed, enabled, costs, reasons, i) ==
  IF i > Len(ds) THEN <<>>
  ELSE (IF ~removed[i] /\ enabled[i] /\ costs[i] # Undefined
          THEN << [ damageIndex |-> i,
                    originalCost |-> ds[i].estimatedCost,
                    adjustedCost |-> costs[i],
                    reason |-> OverrideReason(reasons[i]) ] >>
          ELSE <<>>)
       \o ManualOverridesFrom(ds, removed, enabled, costs, reasons, i + 1)

\* The assessment handleContinueWithOverrides hands to onContinue (lines 866-897).
UpdatedAssessment ==
  [assessment EXCEPT
     !.damages = FilteredDamagesFrom(assessment.damages, removedItems, 1),
     !.totalEstimate = getAdjustedTotal,
     !.manualOverrides = ManualOverridesFrom(assessment.damages, removedItems, overrideEnabled,
                                             adjustedCosts, overrideReasons, 1)]

\* Test Mode Controls, shown on the start screen in simulated mode.
TestControlsShown == View = "initial" /\ aiMode = "simulated"

setTestConfidence(v) ==
  /\ TestControlsShown /\ testHasDamage
  /\ testConfidence' = v
  /\ UNCHANGED <<homeVars, uploaderImages, onQuickApprove, feedbackVars, rejectVars, claimRejected, isAnalyzing, assessment, error,
                 needsHumanInput, damageMarkers, editVars, isAutoApproving, quickApproveComplete,
                 testSeverity, testHasDamage, testHasInconsistency, hasStartedAnalysis,
                 asyncVars, obsVars, reviewVars>>

setTestSeverity(v) ==
  /\ TestControlsShown /\ testHasDamage
  /\ testSeverity' = v
  /\ UNCHANGED <<homeVars, uploaderImages, onQuickApprove, feedbackVars, rejectVars, claimRejected, isAnalyzing, assessment, error,
                 needsHumanInput, damageMarkers, editVars, isAutoApproving, quickApproveComplete,
                 testConfidence, testHasDamage, testHasInconsistency, hasStartedAnalysis,
                 asyncVars, obsVars, reviewVars>>

setTestHasDamage ==
  /\ TestControlsShown
  /\ testHasDamage' = ~testHasDamage
  /\ UNCHANGED <<homeVars, uploaderImages, onQuickApprove, feedbackVars, rejectVars, claimRejected, isAnalyzing, assessment, error,
                 needsHumanInput, damageMarkers, editVars, isAutoApproving, quickApproveComplete,
                 testConfidence, testSeverity, testHasInconsistency, hasStartedAnalysis,
                 asyncVars, obsVars, reviewVars>>

setTestHasInconsistency ==
  /\ TestControlsShown
  /\ testHasInconsistency' = ~testHasInconsistency
  /\ UNCHANGED <<homeVars, uploaderImages, onQuickApprove, feedbackVars, rejectVars, claimRejected, isAnalyzing, assessment, error,
                 needsHumanInput, damageMarkers, editVars, isAutoApproving, quickApproveComplete,
                 testConfidence, testSeverity, testHasDamage, hasStartedAnalysis,
                 asyncVars, obsVars, reviewVars>>

\* analyzeImages up to its first await (lines 640-651, 710-716); the closure
\* keeps the mode and the markers it was called with.
analyzeImages(humanMarkers) ==
  /\ isAnalyzing' = TRUE
  /\ needsHumanInput' = FALSE
  /\ analysisRun' = [ mode |-> aiMode, humanMarkers |-> humanMarkers,
                      phase |-> IF aiMode = "simulated" THEN "delay" ELSE "convert" ]
  /\ apiCalls' = 0

handleStartAnalysis ==
  /\ View = "initial"
  /\ hasStartedAnalysis' = TRUE
  /\ analyzeImages(Undefined)
  /\ UNCHANGED <<homeVars, uploaderImages, onQuickApprove, feedbackVars, rejectVars, claimRejected, assessment, error, damageMarkers,
                 editVars, isAutoApproving, quickApproveComplete, testVars,
                 autoApproveTimer, quickApproveTask,
                 lastQuickApprove, humanRequests, agentClicked, lastRun, reviewVars>>

\* HumanFeedbackRequest: a click on the image adds a marker, the x removes one.
handleImageClick ==
  /\ View = "human_feedback"
  /\ damageMarkers < MaxMarkers
  /\ damageMarkers' = damageMarkers + 1
  /\ UNCHANGED <<homeVars, uploaderImages, onQuickApprove, feedbackVars, rejectVars, claimRejected, isAnalyzing, assessment, error,
                 needsHumanInput, editVars, isAutoApproving, quickApproveComplete, testVars,
                 hasStartedAnalysis, asyncVars, obsVars, reviewVars>>

removeMarker ==
  /\ View = "human_feedback"
  /\ damageMarkers > 0
  /\ damageMarkers' = damageMarkers - 1
  /\ UNCHANGED <<homeVars, uploaderImages, onQuickApprove, feedbackVars, rejectVars, claimRejected, isAnalyzing, assessment, error,
                 needsHumanInput, editVars, isAutoApproving, quickApproveComplete, testVars,
                 hasStartedAnalysis, asyncVars, obsVars, reviewVars>>

\* Variant: the re-run forgets the markers.
handleHumanFeedbackSubmitWithoutMarkers ==
  /\ View = "human_feedback"
  /\ damageMarkers > 0
  /\ analyzeImages(Undefined)
  /\ UNCHANGED <<homeVars, uploaderImages, onQuickApprove, feedbackVars, rejectVars, claimRejected, assessment, error, damageMarkers,
                 editVars, isAutoApproving, quickApproveComplete, testVars, hasStartedAnalysis,
                 autoApproveTimer, quickApproveTask,
                 lastQuickApprove, humanRequests, agentClicked, lastRun, reviewVars>>

\* The submit button is disabled without markers (line 589).
handleHumanFeedbackSubmit ==
  /\ View = "human_feedback"
  /\ damageMarkers > 0
  /\ analyzeImages(damageMarkers)
  /\ UNCHANGED <<homeVars, uploaderImages, onQuickApprove, feedbackVars, rejectVars, claimRejected, assessment, error, damageMarkers,
                 editVars, isAutoApproving, quickApproveComplete, testVars, hasStartedAnalysis,
                 autoApproveTimer, quickApproveTask,
                 lastQuickApprove, humanRequests, agentClicked, lastRun, reviewVars>>

handleSkipHumanFeedback ==
  /\ View = "human_feedback"
  /\ needsHumanInput' = FALSE
  /\ UNCHANGED <<homeVars, uploaderImages, onQuickApprove, feedbackVars, rejectVars, claimRejected, isAnalyzing, assessment, error,
                 damageMarkers, editVars, isAutoApproving, quickApproveComplete, testVars,
                 hasStartedAnalysis, asyncVars, obsVars, reviewVars>>


TestOverrides ==
  [ given |-> TRUE, confidence |-> testConfidence, severity |-> testSeverity,
    hasDamage |-> testHasDamage, hasInconsistency |-> testHasInconsistency ]

RunDone(reported, outcome) ==
  /\ analysisRun' = Null
  /\ lastRun' = [ mode |-> analysisRun.mode, humanMarkers |-> analysisRun.humanMarkers,
                  reported |-> reported, outcome |-> outcome ]

\* Simulated mode after the two delays (lines 657-707).
SimulatedAnalysisDone ==
  /\ analysisRun # Null /\ analysisRun.phase = "delay"
  /\ \E generated \in generateMockAssessment(images, TestOverrides) :
       LET mockResult == HumanAssistedMock(generated, analysisRun.humanMarkers) IN
       /\ assessment' = mockResult
       /\ isAnalyzing' = FALSE
       /\ RunDone(generated.aiConfidence, "ok")
       /\ IF NeedsHumanInput(mockResult, analysisRun.humanMarkers)
            THEN /\ needsHumanInput' = TRUE
                 /\ humanRequests' = humanRequests + 1
                 /\ UNCHANGED autoApproveTimer
            ELSE /\ UNCHANGED <<needsHumanInput, humanRequests>>
                 /\ IF AutoApproveOnCompletion(mockResult, onQuickApprove)
                      THEN autoApproveTimer' = [phase |-> "show", result |-> mockResult]
                      ELSE UNCHANGED autoApproveTimer
  /\ UNCHANGED <<homeVars, uploaderImages, onQuickApprove, feedbackVars, rejectVars, claimRejected, error, damageMarkers, editVars,
                 isAutoApproving, quickApproveComplete, testVars, hasStartedAnalysis,
                 quickApproveTask, lastQuickApprove, apiCalls, agentClicked,
                 reviewVars>>

\* The nested timers of lines 691-700.
AutoApproveShow ==
  /\ autoApproveTimer # Null /\ autoApproveTimer.phase = "show"
  /\ isAutoApproving' = TRUE
  /\ autoApproveTimer' = [autoApproveTimer EXCEPT !.phase = "approving"]
  /\ UNCHANGED <<homeVars, uploaderImages, onQuickApprove, feedbackVars, rejectVars, claimRejected, isAnalyzing, assessment, error,
                 needsHumanInput, damageMarkers, editVars, quickApproveComplete, testVars,
                 hasStartedAnalysis, analysisRun, quickApproveTask, obsVars,
                 reviewVars>>

AutoApproveComplete ==
  /\ autoApproveTimer # Null /\ autoApproveTimer.phase = "approving"
  /\ isAutoApproving' = FALSE
  /\ quickApproveComplete' = TRUE
  /\ autoApproveTimer' = [autoApproveTimer EXCEPT !.phase = "call"]
  /\ UNCHANGED <<homeVars, uploaderImages, onQuickApprove, feedbackVars, rejectVars, claimRejected, isAnalyzing, assessment, error,
                 needsHumanInput, damageMarkers, editVars, testVars,
                 hasStartedAnalysis, analysisRun, quickApproveTask, obsVars,
                 reviewVars>>

AutoApproveCall ==
  /\ autoApproveTimer # Null /\ autoApproveTimer.phase = "call"
  /\ lastQuickApprove' = QuickApproveCall(autoApproveTimer.result, agentClicked)
  /\ autoApproveTimer' = Null
  /\ UNCHANGED <<homeVars, uploaderImages, onQuickApprove, feedbackVars, rejectVars, claimRejected, daVars, analysisRun, quickApproveTask, apiCalls, humanRequests, agentClicked, lastRun, reviewVars>>

\* Live mode: the images are converted, then the request is sent (lines 711-739).
catch ==
  /\ error' = TRUE
  /\ analysisRun' = [analysisRun EXCEPT !.phase = "fallback"]

ConvertImages ==
  /\ analysisRun # Null /\ analysisRun.phase = "convert"
  /\ \/ /\ analysisRun' = [analysisRun EXCEPT !.phase = "fetch"]
        /\ apiCalls' = apiCalls + 1
        /\ UNCHANGED error
     \/ /\ catch
        /\ UNCHANGED apiCalls
  /\ UNCHANGED <<homeVars, uploaderImages, onQuickApprove, feedbackVars, rejectVars, claimRejected, isAnalyzing, assessment,
                 needsHumanInput, damageMarkers, editVars, isAutoApproving, quickApproveComplete,
                 testVars, hasStartedAnalysis, autoApproveTimer, quickApproveTask,
                 lastQuickApprove, humanRequests, agentClicked, lastRun, reviewVars>>

\* The request settles (lines 741-795).
FetchSettled ==
  /\ analysisRun # Null /\ analysisRun.phase = "fetch"
  /\ \E outcome \in CallOutcomes :
       LET response == POST(outcome) IN
       IF outcome.kind = "network_error" \/ ~response.ok
         THEN /\ catch
              /\ UNCHANGED <<isAnalyzing, assessment, needsHumanInput, humanRequests, lastRun>>
         ELSE LET assessmentResult == LiveAssessment(response.body, analysisRun.humanMarkers) IN
              /\ assessment' = assessmentResult
              /\ isAnalyzing' = FALSE
              /\ RunDone(assessmentResult.aiConfidence, "ok")
              /\ UNCHANGED error
              /\ IF NeedsHumanInput(assessmentResult, analysisRun.humanMarkers)
                   THEN /\ needsHumanInput' = TRUE
                        /\ humanRequests' = humanRequests + 1
                   ELSE UNCHANGED <<needsHumanInput, humanRequests>>
  /\ UNCHANGED <<homeVars, uploaderImages, onQuickApprove, feedbackVars, rejectVars, claimRejected, damageMarkers, editVars,
                 isAutoApproving, quickApproveComplete, testVars, hasStartedAnalysis,
                 autoApproveTimer, quickApproveTask, lastQuickApprove, apiCalls,
                 agentClicked, reviewVars>>

\* Variant: the fallback result is passed on as generated.
FallbackAssessmentUnmarked(mockResult) == mockResult

\* The summary of the fallback result tells of the failed call (line 791).
FallbackAssessment(mockResult) == [mockResult EXCEPT !.summary = "api_error"]

\* The timer of the catch block (lines 789-794).
FallbackTimer ==
  /\ analysisRun # Null /\ analysisRun.phase = "fallback"
  /\ \E mockResult \in generateMockAssessment(images, NoOverrides) :
       /\ assessment' = FallbackAssessment(mockResult)
       /\ RunDone(mockResult.aiConfidence, "fallback")
  /\ isAnalyzing' = FALSE
  /\ UNCHANGED <<homeVars, uploaderImages, onQuickApprove, feedbackVars, rejectVars, claimRejected, error, needsHumanInput, damageMarkers,
                 editVars, isAutoApproving, quickApproveComplete, testVars, hasStartedAnalysis,
                 autoApproveTimer, quickApproveTask, lastQuickApprove, apiCalls,
                 humanRequests, agentClicked, reviewVars>>

\* handleAutoApprove: the click, the 1.5 s await, the 2 s timer (lines 922-948).
handleAutoApprove ==
  /\ QuickApproveOffered
  /\ ~isAutoApproving
  /\ isAutoApproving' = TRUE
  /\ agentClicked' = TRUE
  /\ quickApproveTask' = [ phase |-> "await",
                           result |-> [assessment EXCEPT !.totalEstimate = getAdjustedTotal] ]
  /\ UNCHANGED <<homeVars, uploaderImages, onQuickApprove, feedbackVars, rejectVars, claimRejected, isAnalyzing, assessment, error,
                 needsHumanInput, damageMarkers, editVars, quickApproveComplete, testVars,
                 hasStartedAnalysis, analysisRun, autoApproveTimer,
                 lastQuickApprove, apiCalls, humanRequests, lastRun, reviewVars>>

AutoApproveAwaited ==
  /\ quickApproveTask # Null /\ quickApproveTask.phase = "await"
  /\ isAutoApproving' = FALSE
  /\ quickApproveComplete' = TRUE
  /\ quickApproveTask' = IF onQuickApprove THEN [quickApproveTask EXCEPT !.phase = "timer"] ELSE Null
  /\ UNCHANGED <<homeVars, uploaderImages, onQuickApprove, feedbackVars, rejectVars, claimRejected, isAnalyzing, assessment, error,
                 needsHumanInput, damageMarkers, editVars, testVars,
                 hasStartedAnalysis, analysisRun, autoApproveTimer, obsVars,
                 reviewVars>>

AutoApproveTimer ==
  /\ quickApproveTask # Null /\ quickApproveTask.phase = "timer"
  /\ lastQuickApprove' = QuickApproveCall(quickApproveTask.result, TRUE)
  /\ quickApproveTask' = Null
  /\ UNCHANGED <<homeVars, uploaderImages, onQuickApprove, feedbackVars, rejectVars, claimRejected, daVars, analysisRun, autoApproveTimer, apiCalls, humanRequests, agentClicked, lastRun, reviewVars>>


\* The damage table's controls (lines 1471-1534).
Rows == IF assessment = Null THEN {} ELSE 1..Len(assessment.damages)

OverrideToggled(index) ==
  /\ View = "damage"
  /\ ~removedItems[index]
  /\ overrideEnabled' = [overrideEnabled EXCEPT ![index] = ~overrideEnabled[index]]
  /\ adjustedCosts' = IF ~overrideEnabled[index] /\ adjustedCosts[index] = Undefined
                        THEN [adjustedCosts EXCEPT ![index] = assessment.damages[index].estimatedCost]
                        ELSE adjustedCosts
  /\ UNCHANGED <<homeVars, uploaderImages, onQuickApprove, feedbackVars, rejectVars, claimRejected, isAnalyzing, assessment, error,
                 needsHumanInput, damageMarkers, overrideReasons, removedItems, isAutoApproving,
                 quickApproveComplete, testVars, hasStartedAnalysis, asyncVars, obsVars, reviewVars>>

AdjustedCostEdited(index, value) ==
  /\ View = "damage"
  /\ ~removedItems[index] /\ overrideEnabled[index]
  /\ adjustedCosts' = [adjustedCosts EXCEPT ![index] = value]
  /\ UNCHANGED <<homeVars, uploaderImages, onQuickApprove, feedbackVars, rejectVars, claimRejected, isAnalyzing, assessment, error,
                 needsHumanInput, damageMarkers, overrideEnabled, overrideReasons, removedItems,
                 isAutoApproving, quickApproveComplete, testVars, hasStartedAnalysis, asyncVars,
                 obsVars, reviewVars>>

OverrideReasonEdited(index, reason) ==
  /\ View = "damage"
  /\ ~removedItems[index] /\ overrideEnabled[index]
  /\ overrideReasons' = [overrideReasons EXCEPT ![index] = reason]
  /\ UNCHANGED <<homeVars, uploaderImages, onQuickApprove, feedbackVars, rejectVars, claimRejected, isAnalyzing, assessment, error,
                 needsHumanInput, damageMarkers, overrideEnabled, adjustedCosts, removedItems,
                 isAutoApproving, quickApproveComplete, testVars, hasStartedAnalysis, asyncVars,
                 obsVars, reviewVars>>

\* The two maps the Remove/Restore button writes.
CurrentEdit == [removedItems |-> removedItems, overrideEnabled |-> overrideEnabled]

\* Variant: removing a row leaves its override as it is.
RemoveToggleKeepingOverride(edit, index) ==
  [ removedItems |-> [edit.removedItems EXCEPT ![index] = ~edit.removedItems[index]],
    overrideEnabled |-> edit.overrideEnabled ]

\* The button's state updates (lines 1518-1525): the row's removal is
\* flipped, and its override is cleared when the row is being removed.
RemoveToggle(edit, index) ==
  [ removedItems |-> [edit.removedItems EXCEPT ![index] = ~edit.removedItems[index]],
    overrideEnabled |-> IF ~edit.removedItems[index]
                          THEN [edit.overrideEnabled EXCEPT ![index] = FALSE]
                          ELSE edit.overrideEnabled ]

RemoveToggled(index) ==
  /\ View = "damage"
  /\ removedItems' = RemoveToggle(CurrentEdit, index).removedItems
  /\ overrideEnabled' = RemoveToggle(CurrentEdit, index).overrideEnabled
  /\ UNCHANGED <<homeVars, uploaderImages, onQuickApprove, feedbackVars, rejectVars, claimRejected, isAnalyzing, assessment, error,
                 needsHumanInput, damageMarkers, adjustedCosts, overrideReasons, isAutoApproving,
                 quickApproveComplete, testVars, hasStartedAnalysis, asyncVars, obsVars, reviewVars>>

\* onBack of the start, no-damage and damage screens: Home returns to upload.
AssessmentBack ==
  /\ View \in {"initial", "no_damage", "damage"}
  /\ currentStep' = "upload"
  /\ uploaderImages' = 0
  /\ DamageAssessmentUnmounted
  /\ UNCHANGED <<claimData, images, homeAssessment, finalAssessment, aiMode, modeToggles, onQuickApprove, feedbackVars,
                 reviewVars>>

\* onContinue, then handleAssessmentComplete of Home.
handleAssessmentComplete(result) ==
  /\ homeAssessment' = result
  /\ currentStep' = "review"
  /\ AgentReviewMounted(result)
  /\ DamageAssessmentUnmounted
  /\ UNCHANGED <<claimData, images, finalAssessment, aiMode, modeToggles, uploaderImages, onQuickApprove, feedbackVars>>

ProceedToReview ==
  /\ View = "no_damage"
  /\ handleAssessmentComplete(assessment)

handleContinueWithOverrides ==
  /\ View = "damage"
  /\ handleAssessmentComplete(UpdatedAssessment)

\* ------------------------------------------------- the rejection modal
\* Options of the reason select: none chosen, or one of the reasons.
RejectionReasonSamples == {"", "policy_not_covered"}

\* Reject Claim (line 1628).
OpenRejectModal ==
  /\ View = "damage"
  /\ showRejectModal' = TRUE
  /\ UNCHANGED <<homeVars, uploaderImages, onQuickApprove, daVars, asyncVars, obsVars, reviewVars,
                 feedbackVars, rejectionReason, isRejecting, rejectionSent, rejectTask, claimRejected>>

setRejectionReason(v) ==
  /\ View = "reject_modal" /\ ~rejectionSent
  /\ rejectionReason' = v
  /\ UNCHANGED <<homeVars, uploaderImages, onQuickApprove, daVars, asyncVars, obsVars, reviewVars,
                 feedbackVars, showRejectModal, isRejecting, rejectionSent, rejectTask, claimRejected>>

\* Cancel (lines 1709-1714); a rejection that is being sent goes on.
CancelReject ==
  /\ View = "reject_modal" /\ ~rejectionSent
  /\ showRejectModal' = FALSE
  /\ rejectionReason' = ""
  /\ UNCHANGED <<homeVars, uploaderImages, onQuickApprove, daVars, asyncVars, obsVars, reviewVars,
                 feedbackVars, isRejecting, rejectionSent, rejectTask, claimRejected>>

\* handleRejectClaim up to its await (lines 899-905); the button is disabled
\* without a reason and while a rejection is being sent (line 1721).
handleRejectClaim ==
  /\ View = "reject_modal" /\ ~rejectionSent
  /\ rejectionReason # "" /\ ~isRejecting
  /\ isRejecting' = TRUE
  /\ rejectTask' = TRUE
  /\ UNCHANGED <<homeVars, uploaderImages, onQuickApprove, daVars, asyncVars, obsVars, reviewVars,
                 feedbackVars, showRejectModal, rejectionReason, rejectionSent, claimRejected>>

\* handleRejectClaim after the 1.5 s wait (lines 907-918): the notification
\* goes out and the modal, if still open, shows "Claim Rejected".
RejectionSent ==
  /\ rejectTask
  /\ rejectTask' = FALSE
  /\ isRejecting' = FALSE
  /\ rejectionSent' = TRUE
  /\ claimRejected' = TRUE
  /\ UNCHANGED <<homeVars, uploaderImages, onQuickApprove, daVars, asyncVars, obsVars, reviewVars,
                 feedbackVars, showRejectModal, rejectionReason>>

\* Return to Dashboard (lines 1753-1760): onBack, the upload step.
ReturnToDashboard ==
  /\ View = "reject_modal" /\ rejectionSent
  /\ currentStep' = "upload"
  /\ uploaderImages' = 0
  /\ DamageAssessmentUnmounted
  /\ UNCHANGED <<claimData, images, homeAssessment, finalAssessment, aiMode, modeToggles, onQuickApprove,
                 feedbackVars, reviewVars>>

\* ------------------------------------------------------------ AgentReview
adjustedTotal == SumCost(adjustedDamages)

\* Variant: the threshold itself escalates.
requiresSeniorApprovalInclusive ==
  adjustedTotal >= REVIEW_SENIOR_APPROVAL_THRESHOLD \/ homeAssessment.overallSeverity = "Severe"

requiresSeniorApproval ==
  adjustedTotal > REVIEW_SENIOR_APPROVAL_THRESHOLD \/ homeAssessment.overallSeverity = "Severe"

handleCostAdjust(index, newCost) ==
  /\ currentStep = "review"
  /\ ~showApprovalModal
  /\ index \in 1..Len(adjustedDamages)
  /\ adjustedDamages' = [adjustedDamages EXCEPT ![index].estimatedCost = newCost]
  /\ UNCHANGED <<homeVars, uploaderImages, onQuickApprove, feedbackVars, rejectVars, claimRejected, daVars, asyncVars, obsVars,
                 showApprovalModal>>

setShowApprovalModal(v) ==
  /\ currentStep = "review"
  /\ showApprovalModal = ~v
  /\ showApprovalModal' = v
  /\ UNCHANGED <<homeVars, uploaderImages, onQuickApprove, feedbackVars, rejectVars, claimRejected, daVars, asyncVars, obsVars,
                 adjustedDamages>>

RECURSIVE AdjustmentsFrom(_, _, _)
AdjustmentsFrom(adjusted, original, i) ==
  IF i > Len(adjusted) THEN <<>>
  ELSE (IF adjusted[i].estimatedCost # original[i].estimatedCost
          THEN << [ damageIndex |-> i,
                    originalCost |-> original[i].estimatedCost,
                    adjustedCost |-> adjusted[i].estimatedCost ] >>
          ELSE <<>>)
       \o AdjustmentsFrom(adjusted, original, i + 1)

FinalAssessment ==
  [ assessment |-> [homeAssessment EXCEPT !.damages = adjustedDamages,
                                          !.totalEstimate = adjustedTotal],
    adjustedTotal |-> adjustedTotal,
    adjustments |-> AdjustmentsFrom(adjustedDamages, homeAssessment.damages, 1),
    approvalLevel |-> IF requiresSeniorApproval THEN "senior" ELSE "agent" ]

\* Confirm in the approval modal: handleApprove, then handleApproval of Home.
handleApprove ==
  /\ currentStep = "review"
  /\ showApprovalModal
  /\ finalAssessment' = FinalAssessment
  /\ currentStep' = "confirmation"
  /\ AgentReviewUnmounted
  /\ UNCHANGED <<claimData, images, homeAssessment, aiMode, modeToggles, uploaderImages, onQuickApprove, feedbackVars, rejectVars, claimRejected,
                 daVars, asyncVars, obsVars>>

\* Back to Assessment: the assessment screen is mounted afresh.  Home keeps
\* its assessment, but nothing reads it before handleAssessmentComplete
\* replaces it (AgentReview is rendered in step review only), so the kept
\* value is dropped here.
ReviewBack ==
  /\ currentStep = "review"
  /\ ~showApprovalModal
  /\ currentStep' = "assessment"
  /\ AgentReviewUnmounted
  /\ DamageAssessmentMounted
  /\ lastQuickApprove' = Null
  /\ homeAssessment' = Null
  /\ UNCHANGED <<claimData, images, finalAssessment, aiMode, modeToggles, uploaderImages,
                 onQuickApprove, feedbackVars, claimRejected, autoApproveTimer, quickApproveTask>>

\* Variant: New Claim keeps the approval record.
handleNewClaimKeepingRecord ==
  /\ claimRejected' = FALSE
  /\ currentStep = "confirmation"
  /\ claimData' = FALSE
  /\ images' = 0
  /\ homeAssessment' = Null
  /\ currentStep' = "claim-form"
  /\ UNCHANGED <<finalAssessment, aiMode, modeToggles, uploaderImages, onQuickApprove,
                 feedbackVars, rejectVars, daVars, asyncVars, obsVars, reviewVars>>

\* handleNewClaim (page.tsx lines 51-61).
handleNewClaim ==
  /\ claimRejected' = FALSE
  /\ currentStep = "confirmation"
  /\ claimData' = FALSE
  /\ images' = 0
  /\ homeAssessment' = Null
  /\ finalAssessment' = Null
  /\ currentStep' = "claim-form"
  /\ UNCHANGED <<aiMode, modeToggles, uploaderImages, onQuickApprove, feedbackVars, rejectVars, daVars, asyncVars, obsVars, reviewVars>>

\* ------------------------------------------------------------ specification
Next ==
  \/ handleClaimSubmit
  \/ ToggleAIMode
  \/ handleFiles
  \/ removeImage
  \/ handleSubmit
  \/ UploaderBack
  \/ \E v \in TestConfidenceSamples : setTestConfidence(v)
  \/ \E v \in Severities : setTestSeverity(v)
  \/ setTestHasDamage
  \/ setTestHasInconsistency
  \/ handleStartAnalysis
  \/ handleImageClick
  \/ removeMarker
  \/ handleHumanFeedbackSubmit
  \/ handleSkipHumanFeedback
  \/ SimulatedAnalysisDone
  \/ AutoApproveShow
  \/ AutoApproveComplete
  \/ AutoApproveCall
  \/ ConvertImages
  \/ FetchSettled
  \/ FallbackTimer
  \/ handleAutoApprove
  \/ AutoApproveAwaited
  \/ AutoApproveTimer
  \/ \E i \in Rows : OverrideToggled(i)
  \/ \E i \in Rows, v \in AdjustedCostSamples : AdjustedCostEdited(i, v)
  \/ \E i \in Rows, r \in ReasonSamples : OverrideReasonEdited(i, r)
  \/ \E i \in Rows : RemoveToggled(i)
  \/ AssessmentBack
  \/ ProceedToReview
  \/ handleContinueWithOverrides
  \/ OpenRejectModal
  \/ \E v \in RejectionReasonSamples : setRejectionReason(v)
  \/ CancelReject
  \/ handleRejectClaim
  \/ RejectionSent
  \/ ReturnToDashboard
  \/ \E i \in ItemIdx, v \in ReviewCostSamples : handleCostAdjust(i, v)
  \/ \E v \in BOOLEAN : setShowApprovalModal(v)
  \/ handleApprove
  \/ ReviewBack
  \/ handleNewClaim

Spec == Init /\ [][Next]_vars

\* Timers fire: a pending fallback timer is not postponed for ever.
FairSpec == Spec /\ WF_vars(FallbackTimer)

\* =========================================================== feedbackLoop
\* The exported functions of the feedback module (src/lib/feedbackLoop).  No
\* component calls recordFeedback or clearFeedback, so they are not part of
\* Next; FeedbackSpec is the module driven by a caller of its own.
MaxFeedback == 3

\* JavaScript numbers that need not be whole: n / d with d > 0 in lowest
\* terms, and NaN for 0 / 0.
NaN == [nan |-> TRUE]
Zero == [n |-> 0, d |-> 1]
Abs(x) == IF x < 0 THEN -x ELSE x

RECURSIVE GCD(_, _)
GCD(a, b) == IF b = 0 THEN a ELSE GCD(b, a % b)

Quotient(n, d) ==
  IF d = 0 THEN NaN
  ELSE LET g == GCD(Abs(n), d) IN [n |-> n \div g, d |-> d \div g]

Times(q, k) == IF q = NaN THEN NaN ELSE Quotient(q.n * k, q.d)
Plus(a, b) == IF a = NaN \/ b = NaN THEN NaN ELSE Quotient(a.n * b.d + b.n * a.d, a.d * b.d)
MathAbs(q) == IF q = NaN THEN NaN ELSE [n |-> Abs(q.n), d |-> q.d]
GreaterThan(q, k) == q # NaN /\ q.n > k * q.d
AtLeast(q, k) == q # NaN /\ q.n >= k * q.d

\* What callers pass to recordFeedback: the entry without id, timestamp and
\* metrics.  costAdjustments and removedItems matter by their length only.
FeedbackInput(claim, original, confidence, adjustments, removed, final, type) ==
  [ claimId |-> claim,
    aiAssessment |-> [totalEstimate |-> original, aiConfidence |-> confidence],
    agentModifications |-> [costAdjustments |-> adjustments, removedItems |-> removed,
                            finalTotal |-> final],
    interactionType |-> type ]

CostAdjustment(index, original, adjusted) ==
  [damageIndex |-> index, originalCost |-> original, adjustedCost |-> adjusted, reason |-> "Manual adjustment"]

FeedbackInputs ==
  { FeedbackInput("A", 100, 90, <<>>, <<>>, 100, "quick_approved"),
    FeedbackInput("B", 100, 90, <<>>, <<>>, 150, "agent_reviewed"),
    FeedbackInput("C", 100, 60, << CostAdjustment(0, 50, 71) >>, <<>>, 121, "agent_reviewed"),
    FeedbackInput("D", 100, 90, << CostAdjustment(0, 50, 70) >>, <<>>, 120, "agent_reviewed"),
    FeedbackInput("E", 100, 60, <<>>, <<1>>, 75, "agent_reviewed"),
    FeedbackInput("F", 100, 90, << CostAdjustment(0, 50, 60), CostAdjustment(1, 50, 40) >>, <<>>, 100,
                  "agent_reviewed"),
    FeedbackInput("G", 0, 90, << CostAdjustment(0, 0, 50) >>, <<>>, 50, "agent_reviewed"),
    FeedbackInput("H", 100, 60, <<>>, <<0>>, 80, "rejected") }

\* calculateMetrics (lines 90-117).
calculateMetrics(entry) ==
  LET originalTotal == entry.aiAssessment.totalEstimate
      finalTotal == entry.agentModifications.finalTotal
      delta == IF originalTotal > 0
                 THEN Times(Quotient(finalTotal - originalTotal, originalTotal), 100)
                 ELSE Zero
      wasOverridden == Len(entry.agentModifications.costAdjustments) > 0
                       \/ Len(entry.agentModifications.removedItems) > 0
      overrideDirection == IF ~wasOverridden THEN "none"
                           ELSE IF finalTotal > originalTotal THEN "increased" ELSE "decreased"
      significantChange == GreaterThan(MathAbs(delta), 15)
      confidenceWasAccurate == IF entry.aiAssessment.aiConfidence >= 85
                                 THEN ~significantChange ELSE significantChange
  IN [ estimateAccuracyDelta |-> delta,
       wasOverridden |-> wasOverridden,
       overrideDirection |-> overrideDirection,
       confidenceWasAccurate |-> confidenceWasAccurate ]

\* The entry recordFeedback stores (lines 67-72); id and timestamp, read
\* from the clock, are left out.
FullEntry(entry) ==
  [ claimId |-> entry.claimId,
    aiAssessment |-> entry.aiAssessment,
    agentModifications |-> entry.agentModifications,
    interactionType |-> entry.interactionType,
    metrics |-> calculateMetrics(entry) ]

\* recordFeedback (lines 66-85).
recordFeedback(entry) ==
  /\ entriesRecorded < MaxFeedback
  /\ feedbackStore' = Append(feedbackStore, FullEntry(entry))
  /\ entriesRecorded' = entriesRecorded + 1
  /\ UNCHANGED workflowVars

\* clearFeedback (lines 187-189).
clearFeedback ==
  /\ feedbackStore' = <<>>
  /\ UNCHANGED <<workflowVars, entriesRecorded>>

\* The reduce of lines 149-151.
RECURSIVE SumAbsDelta(_)
SumAbsDelta(store) ==
  IF store = <<>> THEN Zero
  ELSE Plus(MathAbs(Head(store).metrics.estimateAccuracyDelta), SumAbsDelta(Tail(store)))

Divide(q, k) == IF q = NaN \/ k = 0 THEN NaN ELSE Quotient(q.n, q.d * k)

IsAutoApproved(f) == f.interactionType = "auto_approved" \/ f.interactionType = "quick_approved"
IsOverridden(f) == f.metrics.wasOverridden
IsCalibrated(f) == f.metrics.confidenceWasAccurate

\* byType of lines 157-160: the interaction types met, each with its count.
ByInteractionType(store) ==
  LET types == { store[i].interactionType : i \in 1..Len(store) }
  IN [ t \in types |-> Cardinality({ i \in 1..Len(store) : store[i].interactionType = t }) ]

\* feedbackStore.slice(-10).reverse()
RECURSIVE Reverse(_)
Reverse(q) == IF q = <<>> THEN <<>> ELSE Append(Reverse(Tail(q)), Head(q))

RecentFeedback(store) ==
  Reverse(SubSeq(store, Max(1, Len(store) - 9), Len(store)))

\* Lines 143-170, what getFeedbackStats computes from a non-empty store.
StatsOf(store) ==
  [ totalAssessments |-> Quotient(Len(store), 1),
    autoApprovedRate |-> Times(Quotient(Len(SelectSeq(store, IsAutoApproved)), Len(store)), 100),
    overrideRate |-> Times(Quotient(Len(SelectSeq(store, IsOverridden)), Len(store)), 100),
    averageAccuracyDelta |-> Divide(SumAbsDelta(store), Len(store)),
    confidenceCalibration |-> Times(Quotient(Len(SelectSeq(store, IsCalibrated)), Len(store)), 100),
    byInteractionType |-> ByInteractionType(store),
    recentFeedback |-> RecentFeedback(store) ]

\* Variant: no early return for the empty store.
getFeedbackStatsUnguarded == StatsOf(feedbackStore)

\* getFeedbackStats (lines 122-171).
getFeedbackStats ==
  IF Len(feedbackStore) = 0
    THEN [ totalAssessments |-> Zero,
           autoApprovedRate |-> Zero,
           overrideRate |-> Zero,
           averageAccuracyDelta |-> Zero,
           confidenceCalibration |-> Zero,
           byInteractionType |-> <<>>,
           recentFeedback |-> <<>> ]
    ELSE StatsOf(feedbackStore)

\* The filter of lines 178-181.
IsTrainingCandidate(f) ==
  f.metrics.wasOverridden /\ GreaterThan(MathAbs(f.metrics.estimateAccuracyDelta), 20)

IsTrainingCandidateInclusive(f) ==
  f.metrics.wasOverridden /\ AtLeast(MathAbs(f.metrics.estimateAccuracyDelta), 20)

\* Variant: the threshold itself counts as a large error.
getTrainingCandidatesInclusive == SelectSeq(feedbackStore, IsTrainingCandidateInclusive)

\* getTrainingCandidates (lines 177-182).
getTrainingCandidates == SelectSeq(feedbackStore, IsTrainingCandidate)

\* exportFeedback (lines 194-196): a copy of the store.
exportFeedback == feedbackStore

FeedbackNext ==
  \/ \E entry \in FeedbackInputs : recordFeedback(entry)
  \/ clearFeedback

FeedbackSpec == Init /\ [][FeedbackNext]_vars

\* ================================================================ claims
RECURSIVE SumOver(_, _)
SumOver(S, f) == IF S = {} THEN 0
                 ELSE LET x == CHOOSE y \in S : TRUE IN f[x] + SumOver(S \ {x}, f)

\* What each row contributes according to the rule of the specification.
ActiveContribution ==
  [ i \in Rows |-> IF overrideEnabled[i] THEN adjustedCosts[i]
                   ELSE assessment.damages[i].estimatedCost ]
ExpectedTotal == SumOver({ i \in Rows : ~removedItems[i] }, ActiveContribution)

\* C1: after Continue from the damage table and with no cost edited in review,
\* the total shown in review, and the adjustedTotal of the approval record,
\* equal the total the assessment screen displayed at Continue (which
\* handleContinueWithOverrides stored as totalEstimate).
C1_ReviewTotalIsDisplayedTotal ==
  /\ (currentStep = "review" /\ homeAssessment.hasDamage
        /\ adjustedDamages = homeAssessment.damages)
       => adjustedTotal = homeAssessment.totalEstimate
  /\ (currentStep = "confirmation" /\ homeAssessment.hasDamage
        /\ finalAssessment.adjustments = <<>>)
       => finalAssessment.adjustedTotal = homeAssessment.totalEstimate

\* C2: while the current assessment carries an inconsistency flag, quick
\* approval is not offered, and onQuickApprove is never called with a
\* flagged assessment.
C2_FlaggedNeverQuickApproved ==
  /\ (assessment # Null /\ Len(assessment.inconsistencies) > 0) => ~QuickApproveOffered
  /\ lastQuickApprove # Null => lastQuickApprove.flags = 0

C5_SevereNeverQuickApproved ==
  /\ (assessment # Null /\ assessment.overallSeverity = "Severe") => ~QuickApproveOffered
  /\ lastQuickApprove # Null => lastQuickApprove.severity # "Severe"
  /\ (currentStep = "confirmation" /\ finalAssessment.assessment.overallSeverity = "Severe")
       => finalAssessment.approvalLevel = "senior"

\* The external call of the pending run has failed.
CallFailed == analysisRun # Null /\ analysisRun.phase = "fallback"
\* The screen shows a generated result that tells of the failure.
FellBack ==
  /\ ~isAnalyzing
  /\ assessment # Null /\ assessment.summary = "api_error"
  /\ \E m \in generateMockAssessment(images, NoOverrides) :
       assessment = [m EXCEPT !.summary = "api_error"]

\* C6: once the external call of a run has failed, the screen eventually
\* leaves the analyzing state with a generated assessment annotated with the
\* error, and a run never issues a second request.
C6_FailureFallsBackOnce ==
  /\ CallFailed ~> FellBack
  /\ [](apiCalls <= 1)

C6_Witness == FellBack /\ apiCalls = 1 /\ error

\* C7: the displayed total is the sum over the rows not removed of the
\* adjusted cost where the override is enabled and of the original cost
\* elsewhere.
C7_DisplayedTotal ==
  assessment # Null => getAdjustedTotal = ExpectedTotal

\* an override that was set to another value and then disabled
C7_Witness ==
  /\ View = "damage"
  /\ \E i \in Rows :
       /\ ~overrideEnabled[i] /\ ~removedItems[i]
       /\ adjustedCosts[i] \notin {Undefined, assessment.damages[i].estimatedCost}
  /\ \E j \in Rows :
       /\ overrideEnabled[j] /\ ~removedItems[j]
       /\ adjustedCosts[j] # assessment.damages[j].estimatedCost

\* C8: when a run without markers completes, the marker request screen is
\* entered exactly when the resulting confidence is below 70 and damage was
\* detected.
C8_RequestIffLowConfidenceAndDamage ==
  [][ (analysisRun # Null /\ analysisRun' = Null /\ analysisRun.humanMarkers = Undefined)
        => (needsHumanInput' <=> (assessment'.aiConfidence < 70 /\ assessment'.hasDamage)) ]_vars

C8_Witness ==
  /\ View = "human_feedback"
  /\ lastRun # Null /\ lastRun.humanMarkers = Undefined
  /\ assessment.aiConfidence = 69

\* C9: the marker request is raised at most once while the assessment screen
\* is mounted.
C9_RequestAtMostOnce == humanRequests <= 1

\* a re-run with markers that still reports less than 70
C9_Witness ==
  /\ View = "damage"
  /\ humanRequests = 1
  /\ lastRun # Null /\ lastRun.humanMarkers # Undefined /\ lastRun.humanMarkers > 0
  /\ assessment.aiConfidence < 70

\* C10: a successful re-run with markers yields min(95, C + 15), C being the
\* confidence the analysis itself reported, and is flagged human-assisted.
C10_MarkerBoost ==
  (lastRun # Null /\ lastRun.humanMarkers # Undefined /\ lastRun.humanMarkers > 0
     /\ lastRun.outcome = "ok" /\ assessment # Null)
    => /\ assessment.aiConfidence = Min(95, lastRun.reported + 15)
       /\ assessment.humanAssisted

\* C11: on the damage screen, while no quick approval is under way, Quick
\* Approve is offered exactly when the confidence is at least 85, the current
\* total is at most 5000 and the assessment carries no inconsistency flag.
C11_QuickApproveOfferedIff ==
  (View = "damage" /\ ~isAutoApproving /\ ~quickApproveComplete)
    => (QuickApproveOffered
          <=> /\ assessment.aiConfidence >= 85
              /\ getAdjustedTotal <= 5000
              /\ Len(assessment.inconsistencies) = 0)

\* C12: the step that completes a claim (the workflow enters confirmation)
\* appends exactly one entry to the feedback store, and nothing is appended
\* or dropped while the confirmation is shown.
C12_OneFeedbackEntryPerCompletedClaim ==
  [][ /\ (currentStep # "confirmation" /\ currentStep' = "confirmation")
           => (Len(feedbackStore') = Len(feedbackStore) + 1
               /\ SubSeq(feedbackStore', 1, Len(feedbackStore)) = feedbackStore)
      /\ (currentStep = "confirmation" /\ currentStep' = "confirmation")
           => feedbackStore' = feedbackStore ]_vars

\* C13: the approval record is present exactly at the confirmation step; it
\* is created only from the empty state, by the approval that leaves review,
\* and after that changes only when New Claim resets it.
C13_ApprovalRecordOncePerClaim ==
  /\ [](currentStep = "confirmation" <=> finalAssessment # Null)
  /\ [][ finalAssessment' # finalAssessment
           => \/ /\ finalAssessment = Null
                 /\ currentStep = "review" /\ currentStep' = "confirmation"
              \/ /\ finalAssessment' = Null
                 /\ currentStep = "confirmation" /\ currentStep' = "claim-form" ]_vars

\* an approval with an adjusted cost has been recorded
C13_Witness ==
  /\ currentStep = "confirmation"
  /\ finalAssessment # Null
  /\ finalAssessment.adjustments # <<>>

\* The total the screen would display with the given removals and overrides.
TotalOf(edit) ==
  AdjustedTotalFrom(assessment.damages, edit.removedItems, edit.overrideEnabled, adjustedCosts, 1)

\* C14: for every row shown, whatever the state of its override, removing
\* the row and restoring it gives the total displayed before.
C14_RemoveRestoreKeepsTotal ==
  View = "damage" =>
    \A i \in Rows : ~removedItems[i] =>
      TotalOf(RemoveToggle(RemoveToggle(CurrentEdit, i), i)) = getAdjustedTotal

\* C15: whenever a row's override is switched on, the row's adjustable value
\* is its original estimated cost.
C15_ToggleOnSeedsOriginal ==
  [][ \A i \in Rows :
        (~overrideEnabled[i] /\ overrideEnabled'[i])
          => adjustedCosts'[i] = assessment.damages[i].estimatedCost ]_vars

\* C16: no row is both removed and override-enabled, and removing a shown
\* row clears its override and takes its current contribution out of the
\* total.
C16_RemovedRowsHaveNoOverride ==
  /\ \A i \in ItemIdx : ~(removedItems[i] /\ overrideEnabled[i])
  /\ View = "damage" =>
       \A i \in Rows : ~removedItems[i] =>
         LET gone == RemoveToggle(CurrentEdit, i)
         IN /\ gone.removedItems[i] /\ ~gone.overrideEnabled[i]
            /\ TotalOf(gone) = getAdjustedTotal - ActiveContribution[i]

\* a removed row that had been given another cost
C16_Witness ==
  /\ View = "damage"
  /\ \E i \in Rows :
       /\ removedItems[i]
       /\ adjustedCosts[i] \notin {Undefined, assessment.damages[i].estimatedCost}
       /\ getAdjustedTotal = SumCost(assessment.damages) - assessment.damages[i].estimatedCost

\* C17: the overrides recorded by Continue are those of the rows shown with
\* an enabled override, each with the row's original cost, the adjusted cost
\* typed for it and a reason that is not empty (the typed one, if any).
C17_RecordedOverridesCarryCostsAndReason ==
  [][ (View = "damage" /\ currentStep' = "review") =>
        LET recorded == homeAssessment'.manualOverrides IN
          /\ \A k \in 1..Len(recorded) :
               LET o == recorded[k]
                   i == o.damageIndex
               IN /\ i \in Rows /\ overrideEnabled[i] /\ ~removedItems[i]
                  /\ o.originalCost = assessment.damages[i].estimatedCost
                  /\ o.adjustedCost = adjustedCosts[i]
                  /\ o.reason # ""
                  /\ overrideReasons[i] # "" => o.reason = overrideReasons[i]
          /\ \A i \in Rows :
               (overrideEnabled[i] /\ ~removedItems[i])
                 => Cardinality({ k \in 1..Len(recorded) : recorded[k].damageIndex = i }) = 1
    ]_vars

\* an override handed to review without a typed reason
C17_Witness ==
  /\ currentStep = "review"
  /\ \E k \in 1..Len(homeAssessment.manualOverrides) :
       LET o == homeAssessment.manualOverrides[k]
       IN o.reason = "Manual adjustment" /\ o.adjustedCost # o.originalCost

\* The most severe level among the items, "None" for an empty list.
MaxSeverityOf(ds) ==
  IF Len(ds) = 0 THEN "None"
  ELSE IF SomeSeverity(ds, "Severe") THEN "Severe"
  ELSE IF SomeSeverity(ds, "Moderate") THEN "Moderate"
  ELSE "Minor"

SeverityIsMaximum(a) == a.overallSeverity = MaxSeverityOf(a.damages)

\* C18: every assessment the assessment screen holds (simulated, live or
\* fallback) and every assessment handed on to the review step has an overall
\* severity equal to the most severe level among its items, "None" when it
\* has no items.
C18_OverallSeverityIsMaximum ==
  /\ assessment # Null => SeverityIsMaximum(assessment)
  /\ homeAssessment # Null => SeverityIsMaximum(homeAssessment)

\* C19: the total estimate of every assessment the generator or the endpoint
\* produced is the sum of the estimated costs of its items.
C19_TotalIsSumOfItemCosts ==
  assessment # Null => assessment.totalEstimate = SumCost(assessment.damages)

\* C20: every produced assessment without damage items carries the same
\* aggregate confidence, the no-damage default, whatever the input was.
C20_NoDamageConfidenceIsFixed ==
  (assessment # Null /\ Len(assessment.damages) = 0)
    => assessment.aiConfidence = MockNoDamage(NoOverrides).aiConfidence

\* C21: an assessment with at least one item, as the generator or the
\* endpoint produced it, has as aggregate confidence the mean of the items'
\* confidences rounded down.  (A simulated re-run with markers adds the
\* marker boost afterwards and is left out.)
C21_ConfidenceIsFlooredMean ==
  (/\ assessment # Null
   /\ Len(assessment.damages) > 0
   /\ (assessment.summary = "live" \/ ~assessment.humanAssisted))
    => assessment.aiConfidence
         = FloorDiv(SumConfidence(assessment.damages), Len(assessment.damages))

\* C22: whenever a request to the endpoint is in flight, every answer of the
\* vision model that parses as JSON, whichever fields it omits, is answered
\* with a body from which an assessment is built, not with an error.
C22_AbsentFieldsAreDefaulted ==
  (analysisRun # Null /\ analysisRun.phase = "fetch")
    => \A outcome \in CallOutcomes :
         outcome.kind = "json" => POST(outcome).ok

\* C23: every logged entry has overrideDirection "none" when neither a cost
\* adjustment nor a removal was recorded, and otherwise the sign of final
\* total minus original total: "increased" when positive, "decreased" when
\* negative, "none" when zero.
C23_DirectionFollowsDeltaSign ==
  \A i \in 1..Len(feedbackStore) :
    LET f == feedbackStore[i]
        delta == f.agentModifications.finalTotal - f.aiAssessment.totalEstimate
        recorded == \/ f.agentModifications.costAdjustments # <<>>
                    \/ f.agentModifications.removedItems # <<>>
    IN f.metrics.overrideDirection
         = IF ~recorded THEN "none"
           ELSE IF delta > 0 THEN "increased"
           ELSE IF delta < 0 THEN "decreased"
           ELSE "none"

\* An entry with a recorded adjustment or removal whose final total is more
\* than 20% away from the original total.
LargeOverride(f) ==
  LET original == f.aiAssessment.totalEstimate
      final == f.agentModifications.finalTotal
  IN /\ (f.agentModifications.costAdjustments # <<>> \/ f.agentModifications.removedItems # <<>>)
     /\ original > 0
     /\ Abs(final - original) * 100 > 20 * original

ExactlyTwentyPercent(f) ==
  /\ f.metrics.wasOverridden
  /\ Abs(f.agentModifications.finalTotal - f.aiAssessment.totalEstimate) * 5
       = f.aiAssessment.totalEstimate

\* C24: getTrainingCandidates returns, in insertion order, exactly the
\* logged entries that were overridden by more than 20% in absolute value;
\* an overridden entry at 20% or less is not returned.
C24_TrainingCandidatesAreLargeOverrides ==
  getTrainingCandidates = SelectSeq(feedbackStore, LargeOverride)

\* two candidates were logged around an override of exactly 20%
C24_Witness ==
  /\ Len(feedbackStore) = 3
  /\ LargeOverride(feedbackStore[1])
  /\ ExactlyTwentyPercent(feedbackStore[2])
  /\ LargeOverride(feedbackStore[3])
  /\ feedbackStore[1] # feedbackStore[3]
  /\ getTrainingCandidates = << feedbackStore[1], feedbackStore[3] >>

\* C25: on an empty log, initially or after clearFeedback, getFeedbackStats
\* returns zero for the count and every rate and average, an empty per-type
\* map and an empty recent list.
C25_EmptyLogStatsAreZero ==
  feedbackStore = <<>>
    => /\ getFeedbackStats.totalAssessments = Zero
       /\ getFeedbackStats.autoApprovedRate = Zero
       /\ getFeedbackStats.overrideRate = Zero
       /\ getFeedbackStats.averageAccuracyDelta = Zero
       /\ getFeedbackStats.confidenceCalibration = Zero
       /\ DOMAIN getFeedbackStats.byInteractionType = {}
       /\ Len(getFeedbackStats.recentFeedback) = 0

\* the log was cleared after entries had been recorded
C25_Witness ==
  /\ feedbackStore = <<>>
  /\ entriesRecorded >= 2
  /\ getFeedbackStats.totalAssessments = Zero

\* C26: once handleAutoApprove has run to its end after a click on Quick
\* Approve (nothing of it is pending any more), the claim has been finalized:
\* onQuickApprove was called for the click, or, without such a handler,
\* onContinue has taken the workflow out of the assessment step.
C26_QuickApproveFinalizes ==
  (agentClicked /\ quickApproveComplete /\ quickApproveTask = Null)
    => \/ currentStep # "assessment"
       \/ (onQuickApprove /\ lastQuickApprove # Null /\ lastQuickApprove.clicked)

\* C27: in the assessment Continue hands to review, the damageIndex of every
\* recorded override points, within the damage list handed over, at the item
\* the agent overrode (the row that was enabled with that cost), also when
\* other rows were removed.
C27_OverrideIndexIdentifiesItem ==
  [][ (View = "damage" /\ currentStep' = "review")
        => \A k \in 1..Len(homeAssessment'.manualOverrides) :
             LET o == homeAssessment'.manualOverrides[k]
             IN /\ o.damageIndex \in 1..Len(homeAssessment'.damages)
                /\ \E i \in Rows :
                     /\ overrideEnabled[i] /\ ~removedItems[i]
                     /\ adjustedCosts[i] = o.adjustedCost
                     /\ assessment.damages[i].estimatedCost = o.originalCost
                     /\ homeAssessment'.damages[o.damageIndex] = assessment.damages[i] ]_vars

\* C28: a claim whose rejection notification was sent never reaches the
\* confirmation step; only a new claim can be approved.
C28_RejectedClaimNeverConfirmed ==
  claimRejected => currentStep # "confirmation"

\* The same run one step further, or finished.
SameRunOrDone ==
  \/ analysisRun' = Null
  \/ /\ analysisRun'.mode = analysisRun.mode
     /\ analysisRun'.humanMarkers = analysisRun.humanMarkers

\* C29: while an analysis run is pending the progress screen is shown, and
\* no step starts a second run, leaves the assessment step, approves,
\* rejects or edits: the pending run only advances or ends, and the
\* assessment changes only when it ends.
C29_OneRunAndNoActionWhilePending ==
  /\ [](analysisRun # Null => (isAnalyzing /\ View = "analyzing"))
  /\ [][ analysisRun # Null
           => /\ SameRunOrDone
              /\ (assessment' # assessment => analysisRun' = Null)
              /\ UNCHANGED <<currentStep, homeAssessment, finalAssessment, editVars, damageMarkers,
                             agentClicked, quickApproveTask, showRejectModal, rejectTask,
                             claimRejected>> ]_vars

\* a re-run with markers is pending while the first result is still held
C29_Witness ==
  /\ analysisRun # Null
  /\ analysisRun.humanMarkers # Undefined
  /\ assessment # Null /\ assessment.hasDamage
  /\ View = "analyzing"

\* C30: in every state the current step has the data it renders from, and
\* the main panel is not blank: from upload on the claim data is set, from
\* assessment on at least one image is stored, at review the assessment is
\* set, at confirmation the approval record is set.
C30_StepDataPresent ==
  /\ currentStep \in {"upload", "assessment", "review", "confirmation"} => claimData
  /\ currentStep \in {"assessment", "review", "confirmation"} => images > 0
  /\ currentStep = "review" => homeAssessment # Null
  /\ currentStep = "confirmation" => finalAssessment # Null
  /\ View # "blank"

\* a claim has gone through every step
C30_Witness ==
  /\ currentStep = "confirmation"
  /\ claimData /\ images > 0 /\ finalAssessment # Null

TypeOK ==
  /\ currentStep \in {"claim-form", "upload", "assessment", "review", "confirmation"}
  /\ apiCalls \in 0..1

====
